---- MODULE Spec2Model ----
(***************************************************************************)
(* Ring VRF core: VRF input/output algebra (vrf.rs) and the ring VRF       *)
(* prover entry points (prover.rs).                                        *)
(*                                                                         *)
(* Curve points are elements of the additive group Z_(Cofactor*GroupOrder),*)
(* the shape of the JubJub group (cofactor 8, prime subgroup order r).     *)
(* Scalars are elements of Fs = 0..GroupOrder-1.  A transcript is the      *)
(* ordered log of labelled messages absorbed so far; squeezing it hashes   *)
(* that log.                                                               *)
(***************************************************************************)
EXTENDS Integers, Sequences, FiniteSets, TLC

VARIABLES op, arg, ret, trace, t, memo, prev

vars == <<op, arg, ret, trace, t, memo, prev>>

\* TLC sorts the fields of a record by the order in which their names first
\* occur in the module; every record below lists its fields in this order
FieldOrder ==
    <<[op |-> 0, arg |-> 0, ret |-> 0, trace |-> 0, seen |-> 0],
      [kind |-> 0, err |-> 0, some |-> 0],
      [input |-> 0, output |-> 0, inout |-> 0, proof |-> 0, bytes |-> 0],
      [zsIn |-> 0, zsOut |-> 0, acc |-> 0, zs |-> 0, t0 |-> 0, shared |-> 0],
      [ev |-> 0, instance |-> 0],
      [sk |-> 0, vrf_input |-> 0, extra |-> 0, auth_path |-> 0],
      [tr |-> 0, member |-> 0, publickey |-> 0, auth_root |-> 0],
      [ps |-> 0, context |-> 0, width |-> 0, outcome |-> 0, check |-> 0],
      [none |-> 0]>>

\* ------------------------------------------------------------------ bounds

\* caller transcripts carry one message out of MaxMsg
MaxMsg == 2
\* secret keys 1..MaxSk
MaxSk == 2
\* ring roots 1..MaxRoot
MaxRoot == 2
\* longest list handed to vrfs_merge
MaxPairs == 2
\* make_bytes contexts 0..MaxCtx-1
MaxCtx == 2
\* commits the caller makes to the transcript it holds
MaxCommits == 1

\* ------------------------------------------------------- curve and fields

\* JubJub cofactor: mul_by_cofactor doubles three times
Cofactor == 8
\* order r of the prime-order subgroup, also the modulus of Fs
GroupOrder == 1000003
PointOrder == Cofactor * GroupOrder

Points == 0 .. (PointOrder - 1)

\* Point::zero()
PointZero == 0

\* Point::add
PointAdd(p, q) == (p + q) % PointOrder

\* Point::mul(scalar, params)
PointMul(p, s) == (p * s) % PointOrder

MulByCofactorIdentity(p) == p

\* Point::mul_by_cofactor(params): [8]P
MulByCofactor(p) == PointMul(p, Cofactor)

\* membership in the prime-order subgroup: a cofactor multiple of a point
InPrimeSubgroup(p) == p % Cofactor = 0

\* base point of the prime-order subgroup, PublicKey = sk * base
BasePoint == 8

Keys == 1 .. MaxSk

PublicKey(sk) == PointMul(BasePoint, sk)

\* ------------------------------------------------------------ transcripts

LabelCode(l) ==
    CASE l = "ctx" -> 1
      [] l = "msg" -> 2
      [] l = "vrf-input" -> 3
      [] l = "vrf-nm-pk" -> 4
      [] l = "vrf-nm-ar" -> 5
      [] l = "vrf-in" -> 6
      [] l = "vrf-out" -> 7
      [] l = "VRFResult" -> 8
      [] l = "MergeVRFs" -> 9
      [] l = "extra-msg" -> 10
      [] l = "no-extra" -> 11
      [] l = "" -> 12
      [] l = "dom-sep" -> 13
      [] l = "challenge" -> 14

HashMod == 1000003
HashMult == 331
LabelMult == 1009

\* merlin::Transcript::new(label)
TranscriptNew(label) == << <<"dom-sep", LabelCode(label)>> >>

\* Transcript::append_message / SigningTranscript::commit_bytes
AppendMessage(tr, label, data) == Append(tr, <<label, data>>)

\* SigningTranscript::commit_point: the point's canonical encoding
CommitPoint(tr, label, p) == AppendMessage(tr, label, p)

Absorb(h, item) ==
    (h * HashMult + LabelCode(item[1]) * LabelMult + item[2]) % HashMod

RECURSIVE Digest(_, _)
Digest(tr, h) ==
    IF tr = <<>> THEN h ELSE Digest(Tail(tr), Absorb(h, Head(tr)))

\* Transcript::challenge_bytes(label, dest): the label and the width of dest
\* are absorbed, then the state is squeezed
ChallengeBytes(tr, label, n) ==
    Digest(Append(AppendMessage(tr, label, n), <<"challenge", n>>), 0)

\* the transcripts a caller brings: a signing context plus one message
CallerTranscripts ==
    { AppendMessage(TranscriptNew("ctx"), "msg", m) : m \in 0 .. (MaxMsg - 1) }

Roots == 1 .. MaxRoot

\* ------------------------------------------------------------------ vrf.rs

PointRandMult == 7
PointRandShift == 3

\* ChaChaRng::from_seed(seed) followed by Point::rand(&mut rng, params):
\* a point of the whole curve group, in general outside the subgroup
PointRand(seed) == (seed * PointRandMult + PointRandShift) % PointOrder

FromRngUncleared(seed) == PointRand(seed)

\* VRFInput::from_rng
FromRng(seed) == MulByCofactor(PointRand(seed))

\* width of the seed squeezed by new_malleable
SeedBytes == 32

\* VRFInput::new_malleable
NewMalleable(tr) == FromRng(ChallengeBytes(tr, "vrf-input", SeedBytes))

NewNonmalleableNoCommit(tr, publickey) == NewMalleable(tr)

\* VRFInput::new_nonmalleable
NewNonmalleable(tr, publickey) ==
    NewMalleable(CommitPoint(tr, "vrf-nm-pk", publickey))

NewRingMalleableNoCommit(tr, auth_root) == NewMalleable(tr)

\* VRFInput::new_ring_malleable: the root's 32-byte little-endian repr
NewRingMalleable(tr, auth_root) ==
    NewMalleable(AppendMessage(tr, "vrf-nm-ar", auth_root))

\* VRFInput::to_output
ToOutput(input, sk) == PointMul(input, sk)

\* VRFInput::to_inout
ToInOut(input, sk) == [input |-> input, output |-> ToOutput(input, sk)]

\* VRFOutput::attach_malleable
AttachMalleable(output, tr) ==
    [input |-> NewMalleable(tr), output |-> output]

\* VRFOutput::attach_nonmalleable
AttachNonmalleable(output, tr, publickey) ==
    [input |-> NewNonmalleable(tr, publickey), output |-> output]

\* VRFOutput::attach_ring_malleable
AttachRingMalleable(output, tr, auth_root) ==
    [input |-> NewRingMalleable(tr, auth_root), output |-> output]

\* VRFInOut::commit
Commit(p, tr) ==
    CommitPoint(CommitPoint(tr, "vrf-in", p.input), "vrf-out", p.output)

\* range of one output byte
ByteSpace == 256

RECURSIVE Pow(_, _)
Pow(b, n) == IF n = 0 THEN 1 ELSE b * Pow(b, n - 1)

MakeBytesSharedTranscript(shared) == shared

\* the transcript make_bytes squeezes: a fresh one, never the caller's
MakeBytesTranscript(shared) == TranscriptNew("VRFResult")

\* VRFInOut::make_bytes::<B>, B of n bytes; the pair is only borrowed
MakeBytes(p, context, n, shared) ==
    LET t0 == MakeBytesTranscript(shared)
        t1 == AppendMessage(t0, "", context)
        t2 == Commit(p, t1)
    IN  ChallengeBytes(t2, "", n) % Pow(ByteSpace, n)

\* width of the challenge squeezed by challenge_scalar_128
ChallengeBytes128 == 16
\* range of one u64 half of the challenge, scaled down
HalfSpace == 4

\* challenge_scalar_128: the first eight bytes become the high half
ChallengeScalar128(tr) ==
    LET s == ChallengeBytes(tr, "", ChallengeBytes128) % (HalfSpace * HalfSpace)
        x == s % HalfSpace
        y == s \div HalfSpace
    IN  x * HalfSpace + y

MergePreconditionNone(ps) == TRUE

\* assert!( ps.len() > 0 )
MergePrecondition(ps) == Len(ps) > 0

RECURSIVE CommitAll(_, _)
\* for p in ps.iter() { p.borrow().commit(&mut t); }
CommitAll(ps, tr) ==
    IF ps = <<>> THEN tr ELSE CommitAll(Tail(ps), Commit(Head(ps), tr))

CloneAdvancingShared(p, tr) ==
    [t0 |-> Commit(p, tr), shared |-> Commit(p, tr)]

\* let mut t0 = t.clone(); p.commit(&mut t0): the clone is advanced and
\* the transcript the closure borrows is left as it was
CloneAndCommit(p, tr) == [t0 |-> Commit(p, tr), shared |-> tr]

RECURSIVE GoLoop(_, _, _, _)
\* the body of the closure `go`: one pass over ps
GoLoop(io, ps, tr, st) ==
    IF ps = <<>> THEN [acc |-> st.acc, zs |-> st.zs, shared |-> tr]
    ELSE LET p == Head(ps)
             c == CloneAndCommit(p, tr)
             z == ChallengeScalar128(c.t0)
             q == IF io THEN p.input ELSE p.output
             acc == PointAdd(st.acc, PointMul(q, z))
         IN  GoLoop(io, Tail(ps), c.shared,
                    [acc |-> acc, zs |-> Append(st.zs, z)])

GoIgnoringIo(io, ps, tr) == GoLoop(TRUE, ps, tr, [acc |-> PointZero, zs |-> <<>>])

\* let go = |io: bool| { let mut acc = Point::zero(); ... acc }
Go(io, ps, tr) == GoLoop(io, ps, tr, [acc |-> PointZero, zs |-> <<>>])

\* vrfs_merge
VrfsMerge(ps) ==
    IF ~MergePrecondition(ps) THEN [kind |-> "panic"]
    ELSE LET t0 == CommitAll(ps, TranscriptNew("MergeVRFs"))
             gi == Go(TRUE, ps, t0)
             go == Go(FALSE, ps, gi.shared)
         IN  [kind |-> "ok",
              inout |-> [input |-> gi.acc, output |-> go.acc],
              zsIn |-> gi.zs, zsOut |-> go.zs]

\* --------------------------------------------------------------- prover.rs

SynthesisErrors == {"AssignmentMissing", "Unsatisfiable"}

\* what the Groth16 backend answers to one create_random_proof call
BackendOutcomes == {"ok"} \cup SynthesisErrors

AuthPaths == 1 .. MaxRoot

\* width of the wide challenge reduced to a scalar
ScalarBytes == 64

\* SigningTranscript::challenge_scalar
ChallengeScalar(tr, label) == ChallengeBytes(tr, label, ScalarBytes) % GroupOrder

\* no_extra(): the empty extra-message transcript
NoExtra == TranscriptNew("no-extra")

\* groth16::create_random_proof(instance, proving_key, rng)
CreateRandomProof(instance, outcome) ==
    IF outcome = "ok"
    THEN [kind |-> "ok", proof |-> [instance |-> instance]]
    ELSE [kind |-> "err", err |-> outcome]

ProveEvent(instance) == [ev |-> "create_random_proof", instance |-> instance]

\* the circuit witness ring_vrf_prove builds
RingVRFInstance(sk, vrf_input, extra, auth_path) ==
    [sk |-> sk,
     vrf_input |-> MulByCofactor(vrf_input),
     extra |-> ChallengeScalar(extra, "extra-msg"),
     auth_path |-> auth_path]

RingVrfProveRetrying(sk, vrf_input, extra, auth_path, outcome) ==
    LET instance == RingVRFInstance(sk, vrf_input, extra, auth_path)
        r == CreateRandomProof(instance, outcome)
    IN  IF r.kind = "err"
        THEN [ret |-> CreateRandomProof(instance, outcome),
              trace |-> <<ProveEvent(instance), ProveEvent(instance)>>]
        ELSE [ret |-> r, trace |-> <<ProveEvent(instance)>>]

\* SecretKey::ring_vrf_prove
RingVrfProve(sk, vrf_input, extra, auth_path, outcome) ==
    LET instance == RingVRFInstance(sk, vrf_input, extra, auth_path)
    IN  [ret |-> CreateRandomProof(instance, outcome),
         trace |-> <<ProveEvent(instance)>>]

\* SecretKey::ring_vrf_sign_first
RingVrfSignFirst(sk, input, extra, auth_path, outcome) ==
    LET inout == ToInOut(input, sk)
        pr == RingVrfProve(sk, input, extra, auth_path, outcome)
        tr == <<[ev |-> "to_inout"]>> \o pr.trace
    IN  IF pr.ret.kind = "err"
        THEN [ret |-> pr.ret, trace |-> tr]
        ELSE [ret |-> [kind |-> "ok", inout |-> inout, proof |-> pr.ret.proof],
              trace |-> tr]

\* SecretKey::ring_vrf_sign_simple
RingVrfSignSimple(sk, input, auth_path, outcome) ==
    RingVrfSignFirst(sk, input, NoExtra, auth_path, outcome)

\* SecretKey::ring_vrf_sign_checked
RingVrfSignChecked(sk, inout, extra, auth_path, outcome) ==
    LET input == inout.input
        output == inout.output
        pr == RingVrfProve(sk, input, extra, auth_path, outcome)
    IN  IF pr.ret.kind = "err"
        THEN [ret |-> pr.ret, trace |-> pr.trace]
        ELSE [ret |-> [kind |-> "ok", output |-> output, proof |-> pr.ret.proof],
              trace |-> pr.trace]

\* the closures a caller passes as `check`: a bool-valued one that always
\* loses, one that always wins, a lottery on the pair's bytes, and an
\* Option-valued lottery that supplies its own extra message
Checks == {"never", "always", "lottery", "lottery_msg"}

LotteryWins(inout) == MakeBytes(inout, 0, 1, <<>>) % 2 = 0

\* check(&inout).extra(): Some(extra transcript) or None
CheckExtra(check, inout) ==
    CASE check = "never" -> [some |-> FALSE]
      [] check = "always" -> [some |-> TRUE, extra |-> NoExtra]
      [] check = "lottery" ->
           IF LotteryWins(inout) THEN [some |-> TRUE, extra |-> NoExtra]
           ELSE [some |-> FALSE]
      [] check = "lottery_msg" ->
           IF LotteryWins(inout)
           THEN [some |-> TRUE,
                 extra |-> AppendMessage(TranscriptNew("ctx"), "msg", 0)]
           ELSE [some |-> FALSE]

RingVrfSignSpeculative(sk, input, check, auth_path, outcome) ==
    LET inout == ToInOut(input, sk)
        c == CheckExtra(check, inout)
        e == IF c.some THEN c.extra ELSE NoExtra
        sc == RingVrfSignChecked(sk, inout, e, auth_path, outcome)
        tr == <<[ev |-> "to_inout"]>> \o sc.trace
                \o <<[inout |-> inout, ev |-> "check"]>>
    IN  IF ~c.some THEN [ret |-> [kind |-> "ok", some |-> FALSE], trace |-> tr]
        ELSE IF sc.ret.kind = "err" THEN [ret |-> sc.ret, trace |-> tr]
        ELSE [ret |-> [kind |-> "ok", some |-> TRUE,
                       output |-> sc.ret.output, proof |-> sc.ret.proof],
              trace |-> tr]

\* SecretKey::ring_vrf_sign_after_check
RingVrfSignAfterCheck(sk, input, check, auth_path, outcome) ==
    LET inout == ToInOut(input, sk)
        c == CheckExtra(check, inout)
        head == <<[ev |-> "to_inout"], [inout |-> inout, ev |-> "check"]>>
    IN  IF ~c.some
        THEN [ret |-> [kind |-> "ok", some |-> FALSE], trace |-> head]
        ELSE LET sc == RingVrfSignChecked(sk, inout, c.extra, auth_path, outcome)
             IN  IF sc.ret.kind = "err"
                 THEN [ret |-> sc.ret, trace |-> head \o sc.trace]
                 ELSE [ret |-> [kind |-> "ok", some |-> TRUE,
                                output |-> sc.ret.output,
                                proof |-> sc.ret.proof],
                       trace |-> head \o sc.trace]

\* ------------------------------------------------------- values in play

\* every VRFInput a caller can hold: VRFInput's field is crate-private, so
\* each one comes out of a derivation mode
MalleableInputs == { NewMalleable(tr) : tr \in CallerTranscripts }

NonmalleableInputs ==
    { NewNonmalleable(tr, PublicKey(sk)) : tr \in CallerTranscripts, sk \in Keys }

RingInputs ==
    { NewRingMalleable(tr, root) : tr \in CallerTranscripts, root \in Roots }

InputPool == MalleableInputs \cup NonmalleableInputs \cup RingInputs

\* a point read off the wire by VRFOutput::read, outside the subgroup
WirePoint == 5

\* VRFOutput's field is public: honest outputs and a foreign point
OutputPool ==
    { ToOutput(i, sk) : i \in MalleableInputs, sk \in Keys } \cup {WirePoint}

\* pairs of a derived input beside any output
PairsOf(inputs, outputs) ==
    { [input |-> i, output |-> o] : i \in inputs, o \in outputs }

\* pairs a key holder computes with to_inout
HonestPairs(inputs, keys) == { ToInOut(i, sk) : i \in inputs, sk \in keys }

\* the pairs handed to vrfs_merge: honest ones under every key, and each
\* input beside a foreign output
MergePairs(inputs, keys) ==
    HonestPairs(inputs, keys) \cup PairsOf(inputs, {WirePoint})

\* the inputs whose pairs are handed to make_bytes and commit
BytesInputs ==
    { NewMalleable(AppendMessage(TranscriptNew("ctx"), "msg", 0)) }

ProverInputs == MalleableInputs \cup RingInputs

RECURSIVE SeqsUpTo(_, _)
SeqsUpTo(S, n) ==
    IF n = 0 THEN {<<>>}
    ELSE LET shorter == SeqsUpTo(S, n - 1)
         IN  shorter \cup { Append(q, x) : q \in shorter, x \in S }

NoCall == [op |-> "none"]

DeriveOps == {"new_malleable", "new_nonmalleable", "new_ring_malleable"}

\* the call that just returned, remembered while derivations follow it
Preceding == IF op \in DeriveOps THEN [op |-> op, arg |-> arg, ret |-> ret] ELSE NoCall

\* no call is in progress: the caller starts the next one
Idle == op = "none"

Init ==
    /\ op = "none"
    /\ arg = [none |-> TRUE]
    /\ ret = [kind |-> "none"]
    /\ trace = <<>>
    /\ t = TranscriptNew("ctx")
    /\ memo = NoCall
    /\ prev = NoCall

\* ---------------------------------------------------------------- actions

Derived(name, a, input) ==
    /\ Idle
    /\ op' = name
    /\ arg' = a
    /\ ret' = [kind |-> "ok", input |-> input]
    /\ trace' = <<>>
    /\ UNCHANGED <<t, memo, prev>>

Paired(name, a, inout) ==
    /\ Idle
    /\ op' = name
    /\ arg' = a
    /\ ret' = [kind |-> "ok", inout |-> inout]
    /\ prev' = NoCall
    /\ trace' = <<>>
    /\ UNCHANGED <<t, memo>>

DoNewMalleable ==
    \E tr \in CallerTranscripts, member \in Keys :
        Derived("new_malleable", [tr |-> tr, member |-> member], NewMalleable(tr))

DoNewNonmalleable ==
    \E tr \in CallerTranscripts, member \in Keys :
        Derived("new_nonmalleable",
                [tr |-> tr, member |-> member, publickey |-> PublicKey(member)],
                NewNonmalleable(tr, PublicKey(member)))

DoNewRingMalleable ==
    \E tr \in CallerTranscripts, member \in Keys, root \in Roots :
        Derived("new_ring_malleable",
                [tr |-> tr, member |-> member, auth_root |-> root],
                NewRingMalleable(tr, root))

DoToInOut ==
    \E input \in InputPool, sk \in Keys :
        Paired("to_inout", [input |-> input, sk |-> sk], ToInOut(input, sk))

DoAttachMalleable ==
    \E output \in OutputPool, tr \in CallerTranscripts :
        Paired("attach_malleable", [output |-> output, tr |-> tr],
               AttachMalleable(output, tr))

DoAttachNonmalleable ==
    \E output \in OutputPool, tr \in CallerTranscripts, sk \in Keys :
        Paired("attach_nonmalleable",
               [output |-> output, tr |-> tr, publickey |-> PublicKey(sk)],
               AttachNonmalleable(output, tr, PublicKey(sk)))

DoAttachRingMalleable ==
    \E output \in OutputPool, tr \in CallerTranscripts, root \in Roots :
        Paired("attach_ring_malleable",
               [output |-> output, tr |-> tr, auth_root |-> root],
               AttachRingMalleable(output, tr, root))

DoVrfsMerge(pool) ==
    \E ps \in SeqsUpTo(pool, MaxPairs) :
        /\ Idle
        /\ op' = "vrfs_merge"
        /\ arg' = [ps |-> ps]
        /\ ret' = VrfsMerge(ps)
        /\ prev' = NoCall
        /\ trace' = <<>>
        /\ UNCHANGED <<t, memo>>

\* the caller commits a pair to the transcript it holds
DoCommit ==
    \E p \in HonestPairs(BytesInputs, Keys) :
        /\ Idle
        /\ Len(t) <= 2 * MaxCommits
        /\ op' = "commit"
        /\ arg' = [inout |-> p]
        /\ ret' = [kind |-> "ok", inout |-> p]
        /\ t' = Commit(p, t)
        /\ prev' = NoCall
        /\ trace' = <<>>
        /\ UNCHANGED memo

OutputSizes == {1, 2}

DoMakeBytes ==
    \E p \in HonestPairs(BytesInputs, Keys), context \in 0 .. (MaxCtx - 1), n \in OutputSizes,
       remember \in BOOLEAN :
        LET bytes == MakeBytes(p, context, n, t)
            call == [op |-> "make_bytes",
                     arg |-> [inout |-> p, context |-> context, width |-> n],
                     ret |-> [kind |-> "ok", inout |-> p, bytes |-> bytes],
                     seen |-> Len(t)]
        IN  /\ Idle
            /\ op' = call.op
            /\ arg' = call.arg
            /\ ret' = call.ret
            /\ memo' = IF remember \/ memo = NoCall THEN call ELSE memo
            /\ prev' = NoCall
            /\ trace' = <<>>
            /\ UNCHANGED t

Proved(name, a, r) ==
    /\ Idle
    /\ op' = name
    /\ arg' = a
    /\ ret' = r.ret
    /\ trace' = r.trace
    /\ prev' = NoCall
    /\ UNCHANGED <<t, memo>>

DoRingVrfProve ==
    \E sk \in Keys, input \in ProverInputs, extra \in CallerTranscripts,
       path \in AuthPaths, outcome \in BackendOutcomes :
        Proved("ring_vrf_prove",
               [input |-> input, sk |-> sk, outcome |-> outcome],
               RingVrfProve(sk, input, extra, path, outcome))

DoRingVrfSignSimple ==
    \E sk \in Keys, input \in ProverInputs, path \in AuthPaths,
       outcome \in BackendOutcomes :
        Proved("ring_vrf_sign_simple",
               [input |-> input, sk |-> sk, outcome |-> outcome],
               RingVrfSignSimple(sk, input, path, outcome))

DoRingVrfSignFirst ==
    \E sk \in Keys, input \in ProverInputs, extra \in CallerTranscripts,
       path \in AuthPaths, outcome \in BackendOutcomes :
        Proved("ring_vrf_sign_first",
               [input |-> input, sk |-> sk, outcome |-> outcome],
               RingVrfSignFirst(sk, input, extra, path, outcome))

DoRingVrfSignAfterCheck ==
    \E sk \in Keys, input \in ProverInputs, check \in Checks,
       path \in AuthPaths, outcome \in BackendOutcomes :
        Proved("ring_vrf_sign_after_check",
               [input |-> input,
                sk |-> sk,
                outcome |-> outcome,
                check |-> check],
               RingVrfSignAfterCheck(sk, input, check, path, outcome))

DoRingVrfSignChecked ==
    \E sk \in Keys, input \in ProverInputs, output \in OutputPool,
       extra \in CallerTranscripts, path \in AuthPaths,
       outcome \in BackendOutcomes :
        Proved("ring_vrf_sign_checked",
               [input |-> input,
                inout |-> [input |-> input, output |-> output],
                sk |-> sk,
                outcome |-> outcome],
               RingVrfSignChecked(sk, [input |-> input, output |-> output],
                                  extra, path, outcome))

\* the call returns: the caller takes the result and is free to call again
Return ==
    /\ ~Idle
    /\ op' = "none"
    /\ arg' = [none |-> TRUE]
    /\ ret' = [kind |-> "none"]
    /\ trace' = <<>>
    /\ prev' = Preceding
    /\ UNCHANGED <<t, memo>>

\* ---------------------------------------------------------- specifications

NextVrf ==
    \/ DoNewMalleable
    \/ DoNewNonmalleable
    \/ DoNewRingMalleable
    \/ DoToInOut
    \/ DoAttachMalleable
    \/ DoAttachNonmalleable
    \/ DoAttachRingMalleable
    \/ DoVrfsMerge(MergePairs(MalleableInputs, Keys))
    \/ Return

NextBytes ==
    \/ DoMakeBytes
    \/ DoCommit
    \/ DoVrfsMerge(HonestPairs(BytesInputs, Keys))
    \/ Return

NextProver ==
    \/ DoRingVrfProve
    \/ DoRingVrfSignSimple
    \/ DoRingVrfSignFirst
    \/ DoRingVrfSignAfterCheck
    \/ DoRingVrfSignChecked
    \/ Return

Next == NextVrf \/ NextBytes \/ NextProver

\* the VRF algebra: derivation modes, pairing, merge
SpecVrf == Init /\ [][NextVrf]_vars

\* byte extraction among commits and merges
SpecBytes == Init /\ [][NextBytes]_vars

\* the prover entry points
SpecProver == Init /\ [][NextProver]_vars

Spec == Init /\ [][Next]_vars

\* ------------------------------------------------------------------ claims

HonestUnder(ps, sk) ==
    \A i \in 1 .. Len(ps) : ps[i].output = PointMul(ps[i].input, sk)

\* C1: merge linearity. Whenever vrfs_merge returns a pair for a list whose
\* every output is input * sk for one scalar sk, the merged output is the
\* merged input times sk.
C1_MergeLinearity ==
    (op = "vrfs_merge" /\ ret.kind = "ok") =>
        \A sk \in Keys :
            HonestUnder(arg.ps, sk) =>
                ret.inout.output = PointMul(ret.inout.input, sk)

C1_Witness ==
    /\ op = "vrfs_merge"
    /\ ret.kind = "ok"
    /\ Len(arg.ps) >= 2
    /\ arg.ps[1] # arg.ps[2]
    /\ HonestUnder(arg.ps, 2)
    /\ ret.inout.input # PointZero
    /\ ret.inout.output # ret.inout.input

\* C2 as stated: merging an empty list returns an InvalidArgument error
\* value, and never panics.
C2_EmptyMergeReturnsError ==
    (op = "vrfs_merge" /\ arg.ps = <<>>) =>
        (ret.kind = "err" /\ ret.err = "InvalidArgument")

\* C2 as amended: merging an empty list fails the assertion
\* ps.len() > 0 and panics; it returns neither a merged pair nor an error
\* value, and a non-empty list is always merged.
C2_EmptyMergePanics ==
    (op = "vrfs_merge") =>
        /\ (arg.ps = <<>> => ret = [kind |-> "panic"])
        /\ (arg.ps # <<>> => ret.kind = "ok")

C2_Witness == op = "vrfs_merge" /\ arg.ps = <<>> /\ ret.kind = "panic"

ProveCalls(tr) ==
    Cardinality({ i \in 1 .. Len(tr) : tr[i].ev = "create_random_proof" })

\* C3: lottery-gate short-circuit. ring_vrf_sign_after_check first computes
\* the pair {input, input * sk}, then calls check on that pair; a check with
\* no extra message gives Ok(None) with no proof generation at all, and a
\* check with an extra message gives exactly one proof generation, after
\* check.
C3_LotteryGate ==
    (op = "ring_vrf_sign_after_check") =>
        LET inout == [input |-> arg.input,
                      output |-> PointMul(arg.input, arg.sk)]
            c == CheckExtra(arg.check, inout)
        IN  /\ Len(trace) >= 2
            /\ trace[1].ev = "to_inout"
            /\ trace[2] = [inout |-> inout, ev |-> "check"]
            /\ ~c.some =>
                 /\ ret = [kind |-> "ok", some |-> FALSE]
                 /\ ProveCalls(trace) = 0
            /\ c.some =>
                 /\ ProveCalls(trace) = 1
                 /\ Len(trace) = 3
                 /\ trace[3].ev = "create_random_proof"

C3_Witness ==
    /\ op = "ring_vrf_sign_after_check"
    /\ arg.check = "lottery"
    /\ ret = [kind |-> "ok", some |-> FALSE]
    /\ ProveCalls(trace) = 0

\* C4: malleability modes. From one transcript, new_malleable and
\* new_nonmalleable (for any public key) give different input points, and
\* two new_nonmalleable calls with the same transcript and key give the
\* same point.
C4_MalleabilityModes ==
    /\ (prev.op = "new_malleable" /\ op = "new_nonmalleable"
            /\ prev.arg.tr = arg.tr) => prev.ret.input # ret.input
    /\ (prev.op = "new_nonmalleable" /\ op = "new_malleable"
            /\ prev.arg.tr = arg.tr) => prev.ret.input # ret.input
    /\ (prev.op = "new_nonmalleable" /\ op = "new_nonmalleable"
            /\ prev.arg.tr = arg.tr /\ prev.arg.publickey = arg.publickey)
         => prev.ret.input = ret.input

C4_Witness ==
    /\ prev.op = "new_malleable"
    /\ op = "new_nonmalleable"
    /\ prev.arg.tr = arg.tr
    /\ prev.ret.input # ret.input

\* C5: determinism of byte extraction. A make_bytes call returns the bytes
\* an earlier call returned for the same pair, context and width, whatever
\* was committed or merged in between, and hands back the pair unchanged.
C5_MakeBytesDeterministic ==
    (op = "make_bytes") =>
        /\ ret.inout = arg.inout
        /\ (memo.op = "make_bytes" /\ memo.arg = arg)
             => memo.ret.bytes = ret.bytes

C5_Witness ==
    /\ op = "make_bytes"
    /\ memo.op = "make_bytes"
    /\ memo.arg = arg
    /\ memo.seen < Len(t)
    /\ memo.ret.bytes = ret.bytes

\* C6: ring-malleable derivation binds to the ring. Two new_ring_malleable
\* calls on one transcript give the same point when the ring root is the
\* same, whichever members call, and different points when the roots differ.
C6_RingBinding ==
    (prev.op = "new_ring_malleable" /\ op = "new_ring_malleable"
        /\ prev.arg.tr = arg.tr) =>
        /\ (prev.arg.auth_root = arg.auth_root => prev.ret.input = ret.input)
        /\ (prev.arg.auth_root # arg.auth_root => prev.ret.input # ret.input)

C6_Witness ==
    /\ prev.op = "new_ring_malleable"
    /\ op = "new_ring_malleable"
    /\ prev.arg.tr = arg.tr
    /\ prev.arg.auth_root = arg.auth_root
    /\ prev.arg.member # arg.member
    /\ prev.ret.input = ret.input

ProverOps ==
    {"ring_vrf_prove", "ring_vrf_sign_simple", "ring_vrf_sign_first",
     "ring_vrf_sign_checked", "ring_vrf_sign_after_check"}

\* C7: synthesis failures are surfaced. When the backend answers a prover
\* entry point's proof generation with a SynthesisError, the call returns
\* exactly that error and nothing else, after exactly one backend call.
C7_SynthesisErrorSurfaced ==
    (op \in ProverOps /\ arg.outcome \in SynthesisErrors
        /\ ProveCalls(trace) > 0) =>
        /\ ret = [kind |-> "err", err |-> arg.outcome]
        /\ ProveCalls(trace) = 1

C7_Witness ==
    /\ op = "ring_vrf_sign_after_check"
    /\ arg.outcome = "Unsatisfiable"
    /\ ret = [kind |-> "err", err |-> "Unsatisfiable"]
    /\ ProveCalls(trace) = 1

ProveEvents == { i \in 1 .. Len(trace) : trace[i].ev = "create_random_proof" }

\* C8 as stated: the point the prover places in the circuit witness is the
\* VRF input it was given, so the proof is for the input of the pair.
C8_ReclearingIsIdentity ==
    (op \in ProverOps) =>
        \A i \in ProveEvents : trace[i].instance.vrf_input = arg.input

\* C8 as amended: the point the prover places in the circuit witness is
\* Cofactor * input, a point of the prime-order subgroup that equals the
\* input only when (Cofactor - 1) * input is zero; against the pair
\* {input, output} it satisfies witness * sk = Cofactor * output.
C8_ReclearingMultiplies ==
    (op \in ProverOps) =>
        \A i \in ProveEvents :
            LET w == trace[i].instance.vrf_input
            IN  /\ w = PointMul(arg.input, Cofactor)
                /\ InPrimeSubgroup(w)
                /\ (w = arg.input) <=> (PointMul(arg.input, Cofactor - 1) = PointZero)
                /\ PointMul(w, arg.sk)
                     = PointMul(PointMul(arg.input, arg.sk), Cofactor)
                /\ (op = "ring_vrf_sign_first" /\ ret.kind = "ok") =>
                     /\ ret.inout.input = arg.input
                     /\ PointMul(w, arg.sk) = PointMul(ret.inout.output, Cofactor)

C8_Witness ==
    /\ op = "ring_vrf_sign_first"
    /\ ret.kind = "ok"
    /\ ProveEvents # {}
    /\ \A i \in ProveEvents : trace[i].instance.vrf_input # ret.inout.input

\* the VRFInput values the last operation constructed
ConstructedInputs ==
    IF op \in DeriveOps THEN {ret.input}
    ELSE IF op \in {"to_inout", "attach_malleable", "attach_nonmalleable",
                    "attach_ring_malleable"} THEN {ret.inout.input}
    ELSE IF op = "vrfs_merge" /\ ret.kind = "ok" THEN {ret.inout.input}
    ELSE {}

\* C9: prime-order-subgroup invariant. Every VRFInput an operation
\* constructs, the merged input of vrfs_merge included, is a cofactor
\* multiple of a curve point.
C9_InputsInPrimeSubgroup ==
    \A p \in ConstructedInputs : \E q \in {p \div Cofactor} : p = PointMul(q, Cofactor)

C9_Witness ==
    /\ op = "vrfs_merge"
    /\ ret.kind = "ok"
    /\ Len(arg.ps) >= 2
    /\ ret.inout.input # PointZero
    /\ InPrimeSubgroup(ret.inout.input)

\* the transcript after every pair of ps was committed, in list order
AllCommitted(ps) ==
    TranscriptNew("MergeVRFs") \o
        [k \in 1 .. 2 * Len(ps) |->
            IF k % 2 = 1 THEN <<"vrf-in", ps[(k + 1) \div 2].input>>
            ELSE <<"vrf-out", ps[k \div 2].output>>]

\* the challenge of pair i: squeezed from that transcript with pair i
\* committed once more
ChallengeOf(ps, i) ==
    ChallengeScalar128(AllCommitted(ps) \o
        << <<"vrf-in", ps[i].input>>, <<"vrf-out", ps[i].output>> >>)

RECURSIVE WeightedSum(_, _, _)
WeightedSum(ps, io, n) ==
    IF n = 0 THEN PointZero
    ELSE PointAdd(WeightedSum(ps, io, n - 1),
                  PointMul(IF io THEN ps[n].input ELSE ps[n].output,
                           ChallengeOf(ps, n)))

\* C10: merge challenge derivation. Both passes of vrfs_merge draw, for
\* pair i, the challenge squeezed from the transcript holding all pairs in
\* list order plus pair i once more, and the merged input and output are
\* the sums of z_i * input_i and z_i * output_i.
C10_MergeChallenges ==
    (op = "vrfs_merge" /\ ret.kind = "ok") =>
        /\ ret.zsIn = ret.zsOut
        /\ Len(ret.zsIn) = Len(arg.ps)
        /\ \A i \in 1 .. Len(arg.ps) : ret.zsIn[i] = ChallengeOf(arg.ps, i)
        /\ ret.inout.input = WeightedSum(arg.ps, TRUE, Len(arg.ps))
        /\ ret.inout.output = WeightedSum(arg.ps, FALSE, Len(arg.ps))

C10_Witness ==
    /\ op = "vrfs_merge"
    /\ ret.kind = "ok"
    /\ Len(arg.ps) >= 2
    /\ arg.ps[1] # arg.ps[2]
    /\ ret.zsIn = ret.zsOut
    /\ ret.zsIn[1] # ret.zsIn[2]
    /\ ret.zsIn[1] # 0

====
